---- MODULE Spec2Model ----
(***************************************************************************)
(* Model of the chainstream subscription session of zensol-go:             *)
(* C.TransactionsNotifications (the connect -> subscribe -> stream ->      *)
(* reconnect loop) and the TransactionNotification.Owner accessor.         *)
(*                                                                         *)
(* The repository carries two revisions of TransactionsNotifications that  *)
(* differ only in the type the subscribe acknowledgement is decoded into:  *)
(*   impl = "generic": JSONRPCResponse,   Result interface{}               *)
(*   impl = "typed"  : SubscribeResponse, Result int                       *)
(* The transport (websocket.Dial, wsjson.Write, wsjson.Read, Conn.Ping,    *)
(* Conn.Close), the ticker and the caller's cancellation are environment:  *)
(* every blocking call is one step whose outcome is chosen                 *)
(* nondeterministically, and Cancel/Tick interleave with the steps.        *)
(***************************************************************************)
EXTENDS Integers, Sequences, FiniteSets

VARIABLES
    impl,          \* which revision of TransactionsNotifications runs
    pc,            \* position of the goroutine inside TransactionsNotifications
    cancelled,     \* ctx.Done() is closed (ctx.Err() != nil)
    cancelPc,      \* history: the position at which the context was cancelled
    dials,         \* number of websocket.Dial calls made so far
    conns,         \* conns[i]: state of the i-th connection Dial returned
    tickers,       \* tickers[i]: state of the i-th ticker time.NewTicker returned
    defers,        \* the function's stack of deferred calls
    tickPending,   \* the current ticker's channel holds a tick
    ack,           \* the acknowledgement frame last read from the transport
    notification,  \* the local variable `notification` (decoded frame)
    rxLog,         \* history: frames read and decoded without error, in order
    delivered,     \* history: the calls do(&notification), in order
    result,        \* the value TransactionsNotifications returned
    lastOp,        \* history: the last transport call and whether it succeeded
    request,       \* *request, the caller's subscribe request
    written,       \* history: the messages wsjson.Write sent, with their connection
    dropped,       \* history: ticks the ticker dropped because its channel was full
    sleeps,        \* history: the durations time.Sleep waited, in seconds
    accountKeys,   \* t.Params.Result.Value.Transaction.Message.AccountKeys
    ownerResult    \* what Owner() returned

vars == <<impl, pc, cancelled, cancelPc, dials, conns, tickers, defers,
          tickPending, ack, notification, rxLog, delivered, result, lastOp,
          request, written, dropped, sleeps, accountKeys, ownerResult>>

sessionVars == <<impl, pc, cancelled, cancelPc, dials, conns, tickers, defers,
                 tickPending, ack, notification, rxLog, delivered, result, lastOp,
                 request, written, dropped, sleeps>>

ownerVars == <<accountKeys, ownerResult>>

(***************************************************************************)
(* Bounds                                                                  *)
(***************************************************************************)
\* cap on the number of websocket.Dial calls of one run
MaxDials == 3
\* cap on the number of notification frames the transport yields in one run
MaxFrames == 3
\* longest account-key list Owner() is applied to
MaxKeys == 4
\* cap on the number of ticks that find the ticker's channel full
MaxDropped == 1

\* time.Sleep(time.Second): the backoff, in seconds
BackoffSeconds == 1

Impls == {"generic", "typed"}

Streaming == {"select", "read", "do", "ping"}

\* the positions inside a call that can block: wsjson.Read, do, wsConn.Ping
Blocking == {"read", "do", "ping"}

SetupErrors == {"err_connect", "err_send", "err_read_ack", "err_result"}

NoFrame == [conn |-> 0, seq |-> 0]

NoOp == [op |-> "none", ok |-> TRUE]

\* what a frame that failed to decode leaves in `notification` on connection c
Partial(c) == [conn |-> c, seq |-> -1]

\* the account keys of the modelled notifications ("" is a legal JSON string)
Keys == {"", "k1", "k2"}

RECURSIVE SeqsUpTo(_, _)
SeqsUpTo(S, n) ==
    IF n = 0 THEN {<<>>}
    ELSE LET shorter == SeqsUpTo(S, n - 1)
         IN shorter \cup {Append(q, x) : q \in {r \in shorter : Len(r) = n - 1}, x \in S}

(***************************************************************************)
(* The subscribe acknowledgement on the wire and its decoding              *)
(***************************************************************************)
NoAck == [hasResult |-> FALSE, json |-> "none", val |-> 0, hasError |-> FALSE, read |-> FALSE]

\* {"jsonrpc":"2.0","id":1,"result":0}, {"jsonrpc":"2.0","id":1,"result":1},
\* {"jsonrpc":"2.0","id":1,"error":{...}} (no result), {...,"result":"abc"}
AckWires ==
    {[hasResult |-> TRUE, json |-> "number", val |-> v, hasError |-> FALSE, read |-> TRUE] : v \in 0..1}
    \cup {[hasResult |-> FALSE, json |-> "none", val |-> 0, hasError |-> TRUE, read |-> TRUE],
          [hasResult |-> TRUE, json |-> "string", val |-> 0, hasError |-> FALSE, read |-> TRUE]}

\* encoding/json into `Result interface{}`: a JSON number becomes a float64,
\* a string a string, null or an absent key leaves the nil interface.
DecodeGeneric(w) ==
    [err |-> FALSE,
     Result |-> IF ~w.hasResult \/ w.json = "null" THEN [type |-> "nil", val |-> 0]
                ELSE IF w.json = "number" THEN [type |-> "float64", val |-> w.val]
                ELSE [type |-> "string", val |-> 0]]

\* encoding/json into `Result int`: a JSON number is stored, null or an absent
\* key leaves the zero value, a string is an UnmarshalTypeError.
DecodeTyped(w) ==
    IF w.hasResult /\ w.json = "string"
    THEN [err |-> TRUE, Result |-> [type |-> "int", val |-> 0]]
    ELSE [err |-> FALSE,
          Result |-> [type |-> "int",
                      val |-> IF w.hasResult /\ w.json = "number" THEN w.val ELSE 0]]

DecodeAck(i, w) == IF i = "generic" THEN DecodeGeneric(w) ELSE DecodeTyped(w)

\* Go's `subResp.Result == 0`: the untyped constant 0 becomes int(0); an
\* interface value equals it only if its dynamic type is int and its value 0.
ResultIsZero(r) == r.type = "int" /\ r.val = 0

\* the subscribe request the caller passes (a *JSONRPCRequest)
OriginalRequest ==
    [JSONRPC |-> "2.0", ID |-> 1, Method |-> "transactionsSubscribe", Params |-> "filter"]

\* encoding/json of a JSONRPCRequest: the fields under their json tags
Marshal(req) ==
    [jsonrpc |-> req.JSONRPC, id |-> req.ID, method |-> req.Method, params |-> req.Params]

MarshalRenumbered(req) ==
    [jsonrpc |-> req.JSONRPC, id |-> req.ID + Len(written), method |-> req.Method,
     params |-> req.Params]

\* wsjson.Write(ctx, wsConn, request): the message put on the wire
SubscribeMessage(req) == Marshal(req)

BackoffGrowing(n) == BackoffSeconds * (n + 1)

\* the duration of the backoff after n earlier backoffs
Backoff(n) == BackoffSeconds

(***************************************************************************)
(* Helpers                                                                 *)
(***************************************************************************)
\* the error kinds a transport call given ctx can fail with
ErrKinds == IF cancelled THEN {"canceled", "io"} ELSE {"io"}

IsGracefulAlways(kind) == TRUE

\* errors.Is(err, context.Canceled) || ctx.Err() != nil
IsGraceful(kind) == kind = "canceled" \/ cancelled

Deferred(f, i) == \E j \in DOMAIN defers : defers[j] = [f |-> f, id |-> i]

ReturnClosingLast(r) ==
    /\ pc' = "done"
    /\ result' = r
    /\ conns' = [i \in DOMAIN conns |->
                    IF i = Len(conns) /\ Deferred("close", i) THEN "closed" ELSE conns[i]]
    /\ tickers' = [i \in DOMAIN tickers |->
                    IF i = Len(tickers) /\ Deferred("stop", i) THEN "stopped" ELSE tickers[i]]
    /\ defers' = <<>>

\* `return r`: the deferred calls run (each closes the connection, or stops
\* the ticker, it was registered for) and the function ends.
Return(r) ==
    /\ pc' = "done"
    /\ result' = r
    /\ conns' = [i \in DOMAIN conns |-> IF Deferred("close", i) THEN "closed" ELSE conns[i]]
    /\ tickers' = [i \in DOMAIN tickers |-> IF Deferred("stop", i) THEN "stopped" ELSE tickers[i]]
    /\ defers' = <<>>

\* the frame the transport yields next on the current connection
NextFrame ==
    [conn |-> Len(conns),
     seq |-> 1 + Cardinality({k \in DOMAIN rxLog : rxLog[k].conn = Len(conns)})]

(***************************************************************************)
(* Initial state                                                           *)
(***************************************************************************)
SessionInit ==
    /\ impl \in Impls
    /\ pc = "dial"
    /\ cancelled = FALSE
    /\ cancelPc = "none"
    /\ dials = 0
    /\ conns = <<>>
    /\ tickers = <<>>
    /\ defers = <<>>
    /\ tickPending = FALSE
    /\ ack = NoAck
    /\ notification = NoFrame
    /\ rxLog = <<>>
    /\ delivered = <<>>
    /\ result = "none"
    /\ lastOp = NoOp
    /\ request = OriginalRequest
    /\ written = <<>>
    /\ dropped = 0
    /\ sleeps = <<>>

Init ==
    /\ SessionInit
    /\ accountKeys = <<>>
    /\ ownerResult = "unset"

(***************************************************************************)
(* Environment                                                             *)
(***************************************************************************)
\* the caller cancels ctx while TransactionsNotifications runs
Cancel ==
    /\ pc # "done"
    /\ ~cancelled
    /\ cancelled' = TRUE
    /\ cancelPc' = pc
    /\ UNCHANGED <<impl, pc, dials, conns, tickers, defers, tickPending, ack,
                   notification, rxLog, delivered, result, lastOp, ownerVars, request, written, dropped, sleeps>>

\* the current ticker fires: its channel has a buffer of one, a tick that
\* finds the buffer full is dropped (time.Ticker drops ticks for slow receivers)
Tick ==
    /\ pc \in Streaming
    /\ tickers[Len(tickers)] = "running"
    /\ IF tickPending
       THEN /\ pc \in Blocking
            /\ dropped < MaxDropped
            /\ dropped' = dropped + 1
            /\ UNCHANGED tickPending
       ELSE /\ tickPending' = TRUE
            /\ UNCHANGED dropped
    /\ UNCHANGED <<impl, pc, cancelled, cancelPc, dials, conns, tickers, defers,
                   ack, notification, rxLog, delivered, result, lastOp, ownerVars,
                   request, written, sleeps>>

(***************************************************************************)
(* TransactionsNotifications                                               *)
(***************************************************************************)
\* websocket.Dial succeeded; defer wsConn.Close(...)
DialOk ==
    /\ pc = "dial"
    /\ dials' = dials + 1
    /\ conns' = Append(conns, "open")
    /\ defers' = Append(defers, [f |-> "close", id |-> Len(conns) + 1])
    /\ lastOp' = [op |-> "dial", ok |-> TRUE]
    /\ pc' = "write"
    /\ UNCHANGED <<impl, cancelled, cancelPc, tickers, tickPending, ack,
                   notification, rxLog, delivered, result, ownerVars, request, written, dropped, sleeps>>

DialFailRetry ==
    /\ pc = "dial"
    /\ dials < MaxDials
    /\ dials' = dials + 1
    /\ lastOp' = [op |-> "dial", ok |-> FALSE]
    /\ pc' = "sleep"
    /\ UNCHANGED <<impl, cancelled, cancelPc, conns, tickers, defers, result,
                   tickPending, ack, notification, rxLog, delivered, ownerVars, request, written, dropped, sleeps>>

\* websocket.Dial failed: return "cannot connect ..."
DialFail ==
    /\ pc = "dial"
    /\ dials' = dials + 1
    /\ lastOp' = [op |-> "dial", ok |-> FALSE]
    /\ Return("err_connect")
    /\ UNCHANGED <<impl, cancelled, cancelPc, tickPending, ack,
                   notification, rxLog, delivered, ownerVars, request, written, dropped, sleeps>>

\* wsjson.Write(ctx, wsConn, request) succeeded
WriteOk ==
    /\ pc = "write"
    /\ lastOp' = [op |-> "write", ok |-> TRUE]
    /\ written' = Append(written, [conn |-> Len(conns), msg |-> SubscribeMessage(request)])
    /\ pc' = "readAck"
    /\ UNCHANGED <<impl, cancelled, cancelPc, dials, conns, tickers, defers,
                   tickPending, ack, notification, rxLog, delivered, result, ownerVars, request, dropped, sleeps>>

\* wsjson.Write failed: return "cannot send subscribe transactions ..."
WriteFail ==
    /\ pc = "write"
    /\ lastOp' = [op |-> "write", ok |-> FALSE]
    /\ Return("err_send")
    /\ UNCHANGED <<impl, cancelled, cancelPc, dials, tickPending, ack,
                   notification, rxLog, delivered, ownerVars, request, written, dropped, sleeps>>

\* wsjson.Read(ctx, wsConn, &subResp) failed before a frame was read
ReadAckFail ==
    /\ pc = "readAck"
    /\ lastOp' = [op |-> "readAck", ok |-> FALSE]
    /\ Return("err_read_ack")
    /\ UNCHANGED <<impl, cancelled, cancelPc, dials, tickPending, ack,
                   notification, rxLog, delivered, ownerVars, request, written, dropped, sleeps>>

\* wsjson.Read read the acknowledgement frame w; it is decoded into subResp,
\* the result is tested, and on success the ticker is created and deferred
ReadAck ==
    /\ pc = "readAck"
    /\ \E w \in AckWires :
        LET d == DecodeAck(impl, w) IN
        /\ ack' = w
        /\ IF d.err
           THEN /\ lastOp' = [op |-> "readAck", ok |-> FALSE]
                /\ Return("err_read_ack")
                /\ UNCHANGED tickPending
           ELSE IF ResultIsZero(d.Result)
           THEN /\ lastOp' = [op |-> "readAck", ok |-> TRUE]
                /\ Return("err_result")
                /\ UNCHANGED tickPending
           ELSE /\ lastOp' = [op |-> "readAck", ok |-> TRUE]
                /\ tickers' = Append(tickers, "running")
                /\ defers' = Append(defers, [f |-> "stop", id |-> Len(tickers) + 1])
                /\ tickPending' = FALSE
                /\ pc' = "select"
                /\ UNCHANGED <<conns, result>>
    /\ UNCHANGED <<impl, cancelled, cancelPc, dials, notification, rxLog,
                   delivered, ownerVars, request, written, dropped, sleeps>>

\* select: case <-ticker.C
SelectTick ==
    /\ pc = "select"
    /\ tickPending
    /\ tickPending' = FALSE
    /\ pc' = "ping"
    /\ UNCHANGED <<impl, cancelled, cancelPc, dials, conns, tickers, defers, ack,
                   notification, rxLog, delivered, result, lastOp, ownerVars, request, written, dropped, sleeps>>

SelectDoneBreak ==
    /\ pc = "select"
    /\ cancelled
    /\ pc' = "select"
    /\ UNCHANGED <<impl, cancelled, cancelPc, dials, conns, tickers, defers,
                   tickPending, ack, notification, rxLog, delivered, result,
                   lastOp, ownerVars, request, written, dropped, sleeps>>

\* select: case <-ctx.Done(): return nil
SelectDone ==
    /\ pc = "select"
    /\ cancelled
    /\ Return("nil")
    /\ UNCHANGED <<impl, cancelled, cancelPc, dials, tickPending, ack,
                   notification, rxLog, delivered, lastOp, ownerVars, request, written, dropped, sleeps>>

DefaultReadyWithoutDone == ~tickPending

\* select takes `default` only when no other case is ready
DefaultReady == ~tickPending /\ ~cancelled

\* select: default; wsjson.Read(ctx, wsConn, &notification) starts
SelectDefault ==
    /\ pc = "select"
    /\ DefaultReady
    /\ pc' = "read"
    /\ UNCHANGED <<impl, cancelled, cancelPc, dials, conns, tickers, defers,
                   tickPending, ack, notification, rxLog, delivered, result,
                   lastOp, ownerVars, request, written, dropped, sleeps>>

PingChecked ==
    /\ pc = "ping"
    /\ \E ok \in BOOLEAN :
        /\ lastOp' = [op |-> "ping", ok |-> ok]
        /\ pc' = IF ok THEN "select" ELSE "sleep"
    /\ UNCHANGED <<impl, cancelled, cancelPc, dials, conns, tickers, defers,
                   tickPending, ack, notification, rxLog, delivered, result, ownerVars,
                   request, written, dropped, sleeps>>

\* _ = wsConn.Ping(ctx): the error is dropped
Ping ==
    /\ pc = "ping"
    /\ \E ok \in BOOLEAN : lastOp' = [op |-> "ping", ok |-> ok]
    /\ pc' = "select"
    /\ UNCHANGED <<impl, cancelled, cancelPc, dials, conns, tickers, defers,
                   tickPending, ack, notification, rxLog, delivered, result, ownerVars, request, written, dropped, sleeps>>

\* wsjson.Read returned a well-formed frame, decoded into notification
ReadOk ==
    /\ pc = "read"
    /\ Len(rxLog) < MaxFrames
    /\ notification' = NextFrame
    /\ rxLog' = Append(rxLog, NextFrame)
    /\ lastOp' = [op |-> "read", ok |-> TRUE]
    /\ pc' = "do"
    /\ UNCHANGED <<impl, cancelled, cancelPc, dials, conns, tickers, defers,
                   tickPending, ack, delivered, result, ownerVars, request, written, dropped, sleeps>>

AfterReadErrorNoRetry(k) == Return("nil")

\* what follows a failed read of kind k: return nil, or sleep and reconnect
AfterReadError(k) ==
    IF IsGraceful(k)
    THEN Return("nil")
    ELSE /\ dials < MaxDials
         /\ pc' = "sleep"
         /\ UNCHANGED <<conns, tickers, defers, result>>

\* wsjson.Read failed: the read itself, or the decoding of the frame
\* (op "decode"), returned an error
ReadFail ==
    /\ pc = "read"
    /\ \E k \in ErrKinds, o \in {"read", "decode"} :
        /\ (o = "decode" => k = "io")
        /\ lastOp' = [op |-> o, ok |-> FALSE]
        /\ notification' = IF o = "decode" THEN Partial(Len(conns)) ELSE notification
        /\ AfterReadError(k)
    /\ UNCHANGED <<impl, cancelled, cancelPc, dials, tickPending, ack,
                   rxLog, delivered, ownerVars, request, written, dropped, sleeps>>

InvokeTwice(n) ==
    Append(Append(delivered, [frame |-> n, late |-> cancelled]),
           [frame |-> n, late |-> cancelled])

\* what do(&notification) appends to the record of the callback's calls
Invoke(n) == Append(delivered, [frame |-> n, late |-> cancelled])

\* do(&notification)
Do ==
    /\ pc = "do"
    /\ delivered' = Invoke(notification)
    /\ pc' = "select"
    /\ UNCHANGED <<impl, cancelled, cancelPc, dials, conns, tickers, defers,
                   tickPending, ack, notification, rxLog, result, lastOp, ownerVars, request, written, dropped, sleeps>>

\* time.Sleep(time.Second); goto RECONNECT
Sleep ==
    /\ pc = "sleep"
    /\ sleeps' = Append(sleeps, Backoff(Len(sleeps)))
    /\ pc' = "dial"
    /\ UNCHANGED <<impl, cancelled, cancelPc, dials, conns, tickers, defers,
                   tickPending, ack, notification, rxLog, delivered, result,
                   lastOp, ownerVars, request, written, dropped>>

Next ==
    \/ Cancel
    \/ Tick
    \/ DialOk
    \/ DialFail
    \/ WriteOk
    \/ WriteFail
    \/ ReadAckFail
    \/ ReadAck
    \/ SelectTick
    \/ SelectDone
    \/ SelectDefault
    \/ Ping
    \/ ReadOk
    \/ ReadFail
    \/ Do
    \/ Sleep

Spec == Init /\ [][Next]_vars

(***************************************************************************)
(* The run under a transport that honours ctx: a call given a cancelled    *)
(* context does not succeed, it fails promptly.  The goroutine's own steps *)
(* are weakly fair; select chooses uniformly at random among its ready     *)
(* cases, so a case that is ready again and again is eventually chosen     *)
(* (strong fairness of SelectDone).  The caller and the ticker are not     *)
(* fair: neither a cancellation nor a tick ever has to happen.             *)
(***************************************************************************)
LiveNext ==
    \/ Cancel
    \/ Tick
    \/ (~cancelled /\ DialOk)
    \/ DialFail
    \/ (~cancelled /\ WriteOk)
    \/ WriteFail
    \/ ReadAckFail
    \/ (~cancelled /\ ReadAck)
    \/ SelectTick
    \/ SelectDone
    \/ SelectDefault
    \/ Ping
    \/ (~cancelled /\ ReadOk)
    \/ ReadFail
    \/ Do
    \/ Sleep

\* a transport call given the cancelled context fails
PromptFailure ==
    cancelled /\ (DialFail \/ WriteFail \/ ReadAckFail \/ ReadFail \/ Ping)

\* the goroutine runs the callback to its end and wakes from time.Sleep
OwnStep == Do \/ Sleep

\* the actions of each group are enabled at different positions of the
\* goroutine, so fairness of a group is fairness of each of its actions
Fairness ==
    /\ WF_vars(PromptFailure)
    /\ WF_vars(OwnStep)
    /\ SF_vars(SelectDone)

LiveSpec == Init /\ [][LiveNext]_vars /\ Fairness

(***************************************************************************)
(* TransactionNotification.Owner                                           *)
(***************************************************************************)
\* Go's s[i] on a slice: a run-time panic when i is out of range
GoIndex(s, i) == IF i < Len(s) THEN s[i + 1] ELSE "panic"

OwnerUnguarded(keys) == GoIndex(keys, 0)

\* func (t *TransactionNotification) Owner() string
Owner(keys) == IF Len(keys) = 0 THEN "" ELSE GoIndex(keys, 0)

\* a decoded notification with any account-key list; Owner not yet called
OwnerInit ==
    /\ SessionInit
    /\ accountKeys \in SeqsUpTo(Keys, MaxKeys)
    /\ ownerResult = "unset"

\* t.Owner()
CallOwner ==
    /\ ownerResult = "unset"
    /\ ownerResult' = Owner(accountKeys)
    /\ UNCHANGED <<accountKeys, sessionVars>>

OwnerNext == CallOwner

OwnerSpec == OwnerInit /\ [][OwnerNext]_vars

(***************************************************************************)
(* Properties                                                              *)
(***************************************************************************)
Frames == [k \in DOMAIN delivered |-> delivered[k].frame]

Late == {k \in DOMAIN delivered : delivered[k].late}

OpenConns == {i \in DOMAIN conns : conns[i] = "open"}

\* a subscription has been active at least once (a ticker exists from then on)
SubscribedOnce == Len(tickers) > 0

\* the acknowledgement last read, if any, carried a non-zero subscription id
AckHasId == ack.read => (ack.hasResult /\ ack.json = "number" /\ ack.val # 0)

\* frame a was read from the transport before frame b
Before(a, b) == a.conn < b.conn \/ (a.conn = b.conn /\ a.seq < b.seq)

\* C1: whenever TransactionsNotifications has returned nil, the caller's
\* context had been cancelled before the return.
C1_NilOnlyAfterCancel == (pc = "done" /\ result = "nil") => cancelled

C1_Witness == pc = "done" /\ result = "nil" /\ cancelled /\ cancelPc = "read"

\* C2: when the first Dial, the first subscribe write or the first read of the
\* acknowledgement fails, run has returned the matching setup error at once:
\* there was one Dial only, no connection beyond it, and no callback call.
C2_FirstAttemptFailureIsFatal ==
    (dials = 1 /\ lastOp.op \in {"dial", "write", "readAck"} /\ ~lastOp.ok)
        => /\ pc = "done"
           /\ result = (CASE lastOp.op = "dial" -> "err_connect"
                          [] lastOp.op = "write" -> "err_send"
                          [] OTHER -> "err_read_ack")
           /\ Len(conns) <= 1
           /\ delivered = <<>>
           /\ rxLog = <<>>

C2_Witness ==
    /\ dials = 1 /\ lastOp = [op |-> "write", ok |-> FALSE]
    /\ pc = "done" /\ result = "err_send" /\ delivered = <<>>

\* the acknowledgement read on the current connection has result 0 or no result
AckZeroOrAbsent ==
    ack.read /\ (~ack.hasResult \/ (ack.json = "number" /\ ack.val = 0))

\* C3: once an acknowledgement with result 0 or without a result has been
\* read, run has returned a setup error and is never streaming: no
\* notification frame is read and the callback is not called.
C3_ZeroAckIsSetupError ==
    AckZeroOrAbsent
        => /\ pc = "done"
           /\ result \in SetupErrors
           /\ \A k \in DOMAIN rxLog : rxLog[k].conn # Len(conns)
           /\ \A k \in DOMAIN delivered : Frames[k].conn # Len(conns)

\* C4: the callback's calls are exactly the frames read and decoded without
\* error, in the order they were read, each once (the frame just read is the
\* one call still to come); a frame that failed to decode is never passed.
C4_CallbackFollowsReads ==
    /\ IF pc = "do" THEN rxLog = Append(Frames, notification) ELSE Frames = rxLog
    /\ \A k \in DOMAIN delivered : Frames[k].seq > 0
    /\ \A k \in DOMAIN delivered :
          Frames[k].seq = 1 + Cardinality({j \in 1..(k - 1) : Frames[j].conn = Frames[k].conn})

C4_Witness ==
    /\ Len(delivered) = 3
    /\ \A k \in DOMAIN delivered : Frames[k] = [conn |-> 1, seq |-> k]
    /\ pc = "select"

\* C5: a read (or decode) failure without cancellation does not end run: it
\* goes to the backoff and reconnects; after the one failure and a successful
\* second connect and subscribe run has not returned, and the callback's calls
\* are in reading order with no frame delivered twice.
C5_ReconnectIsTransparent ==
    /\ (lastOp.op \in {"read", "decode"} /\ ~lastOp.ok /\ ~cancelled)
          => (pc \in {"sleep", "dial"} /\ result = "none")
    /\ (dials = 2 /\ Len(tickers) = 2 /\ ~cancelled) => pc # "done"
    /\ \A j, k \in DOMAIN delivered : j < k => Before(Frames[j], Frames[k])

C5_Witness ==
    /\ dials = 2 /\ ~cancelled /\ pc = "select"
    /\ Frames = <<[conn |-> 1, seq |-> 1], [conn |-> 2, seq |-> 1], [conn |-> 2, seq |-> 2]>>

\* C6 (as claimed): after a cancellation that fires while streaming, run
\* returns nil and the callback is never called after the cancellation.
C6_NoCallbackAfterCancel ==
    (cancelPc \in Streaming /\ AckHasId)
        => /\ Late = {}
           /\ (pc = "done" => result = "nil")

\* C6 (amended): after a cancellation that fires while streaming, run returns
\* nil, no read is started after the cancellation, and the callback is called
\* at most once after it, only for the frame whose read was in flight or
\* had completed when the signal fired.
C6_AtMostOneCallbackAfterCancel ==
    cancelPc \in Streaming
        => /\ Cardinality(Late) <= 1
           /\ (Late # {} => cancelPc \in {"read", "do"})
           /\ (pc \in {"read", "do"} => cancelPc \in {"read", "do"})
           /\ (pc = "done" => result = "nil")
           /\ pc \notin {"sleep", "dial", "write", "readAck"}

C6_Witness ==
    /\ cancelPc = "read" /\ pc = "done" /\ result = "nil"
    /\ Cardinality(Late) = 1
    /\ Len(rxLog) < MaxFrames

\* C7: whenever the context has been cancelled before run returned, run
\* returned without an error.
C7_CancelNeverAnError == (pc = "done" /\ cancelled) => result = "nil"

\* C8: once a subscription has been active (its acknowledgement carried a
\* subscription id), run never returns an error.
C8_NoErrorAfterSubscribed ==
    (pc = "done" /\ SubscribedOnce /\ AckHasId) => result = "nil"

\* C9: Owner() returns "" for an empty account-key list and the first key
\* otherwise, and never panics.
C9_OwnerIsFirstKeyOrEmpty ==
    ownerResult # "unset"
        => /\ ownerResult # "panic"
           /\ (accountKeys = <<>> => ownerResult = "")
           /\ (accountKeys # <<>> => ownerResult = Head(accountKeys))

C9_Witness == accountKeys = <<>> /\ ownerResult = ""

\* C10: at every moment of a run (whose acknowledgements carried a
\* subscription id) at most one connection the session opened is open.
C10_AtMostOneOpenConn == AckHasId => Cardinality(OpenConns) <= 1

\* C11: once the context is cancelled, run eventually returns, wherever the
\* session was (read, ping, connect, subscribe, backoff) and without any
\* further frame from the transport.
C11_CancelLeadsToReturn == cancelled ~> (pc = "done")

C11_Witness == cancelPc = "sleep" /\ pc = "done" /\ rxLog = <<>>

\* C12: when the select of the streaming loop is reached with the context
\* cancelled, the session returns in that iteration: the step it takes is
\* the return, never a ping and never the start of a read.
C12_CancelWinsSelect ==
    [][(pc = "select" /\ cancelled /\ pc' # pc) => pc' = "done"]_vars

\* C13: every firing of the keepalive ticker while streaming is answered by a
\* ping of its own: the ticker never has to drop a tick because the one
\* before it is still waiting in its channel.
C13_NoTickLost == AckHasId => dropped = 0

\* C14: a ping that fails leaves the session streaming on the same
\* connection: the step goes back to the select, no connection, ticker or
\* backoff is added, nothing is returned and the callback's calls are unchanged.
C14_PingFailureIgnored ==
    [][(pc = "ping" /\ pc' # "ping" /\ ~lastOp'.ok)
          => /\ pc' = "select"
             /\ lastOp'.op = "ping"
             /\ UNCHANGED <<conns, tickers, dials, sleeps, result, delivered, rxLog>>]_vars

C14_Witness ==
    /\ lastOp = [op |-> "ping", ok |-> FALSE]
    /\ pc = "read" /\ ~cancelled /\ Len(delivered) >= 1 /\ dials = 1

\* C15: the request is never changed, and on every connection the session
\* writes exactly one message before streaming, the encoding of the caller's
\* original request: the k-th message written is the one of the k-th
\* connection, and a session that awaits the acknowledgement or streams has
\* written on its current connection.
C15_OneSubscribePerConnection ==
    /\ request = OriginalRequest
    /\ Len(written) <= Len(conns)
    /\ \A k \in DOMAIN written :
          written[k] = [conn |-> k, msg |-> Marshal(OriginalRequest)]
    /\ (pc \in Streaming \cup {"readAck", "sleep"}) => Len(written) = Len(conns)

C15_Witness == Len(written) = 2 /\ Len(conns) = 2 /\ pc = "select"

\* C16: every backoff lasts the same fixed time, whatever the number of
\* earlier ones; a failed read without cancellation is followed by the
\* backoff and then the next Dial, one backoff for each reconnect; runs with
\* every number of reconnects the bound allows exist.
C16_FixedBackoff ==
    /\ \A i \in DOMAIN sleeps : sleeps[i] = BackoffSeconds
    /\ Len(sleeps) = (IF pc = "dial" THEN dials ELSE dials - 1)
    /\ (lastOp.op \in {"read", "decode"} /\ ~lastOp.ok /\ pc # "done")
          => pc \in {"sleep", "dial"}

C16_Witness ==
    /\ Len(sleeps) = MaxDials - 1 /\ dials = MaxDials
    /\ pc = "select" /\ ~cancelled

\* C17: when run has returned, every connection it opened is closed and
\* every ticker it created is stopped.
C17_AllReleasedAtReturn ==
    pc = "done"
        => /\ \A i \in DOMAIN conns : conns[i] = "closed"
           /\ \A i \in DOMAIN tickers : tickers[i] = "stopped"

C17_Witness ==
    /\ pc = "done" /\ result = "nil"
    /\ Len(conns) = 2 /\ Len(tickers) = 2

\* C18: whenever the callback is about to be called, the frame comes from
\* the connection opened last and the acknowledgement read on that
\* connection carried a non-zero subscription id.
C18_CallbackOnlyWhenSubscribed ==
    pc = "do"
        => /\ notification.conn = Len(conns)
           /\ ack.read /\ ack.hasResult /\ ack.json = "number" /\ ack.val # 0

====
